---- MODULE Spec2Model ----
(***************************************************************************)
(* Model of the real-time pipeline of the speaker-diarization system:      *)
(* src/src/processors/realtime_processor.py (RealtimeProcessor) together   *)
(* with the streaming bridge of                                            *)
(* src/src/services/streaming_transcription_service.py.                    *)
(*                                                                         *)
(* Threads: the caller (UI) thread runs start_monitoring, stop_monitoring  *)
(* and get_audio_level one at a time (mpc); the audio device thread runs   *)
(* _audio_callback; every successful start creates one worker thread that  *)
(* runs _processing_loop (worker[w]); the speech engine's thread delivers  *)
(* recognized / session_stopped events.                                    *)
(*                                                                         *)
(* Units: durations of the configuration and of segments are in tenths of  *)
(* a second, the wall clock `now` in seconds, amplitudes in thousandths of *)
(* full scale, similarities and thresholds in hundredths.  An optional     *)
(* value (Python None) is the empty sequence, a present value v is <<v>>.  *)
(***************************************************************************)
EXTENDS Integers, Sequences, FiniteSets, TLC

\* ------------------------------------------------------------------ bounds
MaxCaptured == 3      \* samples the device delivers in a run of Spec
MaxWindowed == 5      \* samples the device delivers in a run of SpecWindow
MaxQueue    == 2      \* frames waiting in audio_queue when the device adds one
MaxStarts   == 1      \* start_monitoring calls that get past the is_running guard
MaxTime     == 22     \* the clock stops advancing once it is past MaxTime
TickStep    == 11     \* seconds the clock advances in one step

\* --------------------------------------------------------- program constants
SilenceThreshold     == 3     \* rms < 0.003, in thousandths
BufferDurationTarget == 150   \* buffer_duration_target = 15.0 s, in tenths
HardCeiling          == 20    \* ... > 20 seconds since the last transcription
DefaultThreshold     == 75    \* SIMILARITY_THRESHOLD default 0.75
PeekLimit            == 10    \* get_audio_level looks at up to 10 frames
Int16Scale           == 32767 \* push_audio: audio_data * 32767

use_streaming == TRUE         \* self.use_streaming = True

Workers == {1, 2}             \* thread objects the model can hold at a time

\* Configurations (SAMPLE_RATE, AUDIO_CHUNK_DURATION, AUDIO_OVERLAP_DURATION):
\* the defaults 3.0 s / 1.0 s at a scaled-down sample rate, and two with
\* fractional products so that the int() truncations are exercised.
DefaultConfig ==
    [sample_rate |-> 1, chunk_duration |-> 30, overlap_duration |-> 10]

Configs ==
    { DefaultConfig,
      [sample_rate |-> 2, chunk_duration |-> 15, overlap_duration |-> 5],
      [sample_rate |-> 1, chunk_duration |-> 25, overlap_duration |-> 15] }

\* frames the device delivers: n samples of amplitude a (a quiet short frame,
\* a loud long one)
Frames == { [n |-> 1, a |-> 0], [n |-> 2, a |-> 5] }
ThresholdArgs == {<<>>, <<0>>}   \* threshold argument of start_monitoring

VARIABLES
    cfg,                    \* self.sample_rate, chunk_duration, overlap_duration
    pyaudio_ok,             \* the module-level pyaudio import succeeded
    is_running,
    audio_queue,            \* Seq of frames; a frame is a Seq of samples
    audio_stream,           \* "None" | "open" | "started" | "dead"
    processing_thread,      \* <<>> or <<w>>
    target_profile,         \* <<>> (attribute absent) or <<id>>
    threshold,
    session_transcripts,
    transcription_buffer,   \* Seq of audio spans
    buffer_segments,        \* Seq of segment records
    buffer_start_time,
    buffer_duration_target,
    last_transcription_time,
    is_streaming, stream, recognizer,   \* StreamingTranscriptionService
    stream_pending,         \* audio written to the push stream, not yet recognized
    worker,                 \* [Workers -> thread state]
    mpc,                    \* position of the caller thread
    m_raising,              \* stop_monitoring runs inside start_monitoring's except
    temp_items, recent_audio, level_left,   \* locals of get_audio_level
    audio_level,            \* last value returned by get_audio_level
    now,                    \* time.time()
    \* history (not program state)
    captured,               \* samples delivered so far
    chunks_cut,             \* windows handed to _process_audio_chunk so far
    starts,                 \* start_monitoring calls past the guard
    silent_used,            \* a window below the silence threshold was analyzed
    flushed,                \* span id -> number of flushes that submitted it
    stop_seen,              \* span ids in the buffer when stop_monitoring was called
    summary,                \* <<>> or <<the summary stop_monitoring builds and returns>>
    probe                   \* arguments and results of a function applied alone

vars == << cfg, pyaudio_ok, is_running, audio_queue, audio_stream,
           processing_thread, target_profile, threshold, session_transcripts,
           transcription_buffer, buffer_segments, buffer_start_time,
           buffer_duration_target, last_transcription_time,
           is_streaming, stream, recognizer, stream_pending, worker,
           mpc, m_raising, temp_items, recent_audio, level_left, audio_level,
           now, captured, chunks_cut, starts, silent_used, flushed,
           stop_seen, summary, probe >>

\* ------------------------------------------------------------ pure helpers
Min(a, b) == IF a <= b THEN a ELSE b
Max(a, b) == IF a >= b THEN a ELSE b

RECURSIVE Flatten(_)
Flatten(ss) == IF ss = <<>> THEN <<>> ELSE Head(ss) \o Flatten(Tail(ss))

RECURSIVE SumSq(_)
SumSq(s) == IF s = <<>> THEN 0 ELSE Head(s).a * Head(s).a + SumSq(Tail(s))

RECURSIVE SumAbs(_)
SumAbs(s) == IF s = <<>> THEN 0 ELSE Head(s).a + SumAbs(Tail(s))

\* Python s[a:b] for a sequence (0-based, negative indices count from the end)
PyIndex(n, k) == IF k < 0 THEN Max(n + k, 0) ELSE Min(k, n)
PySlice(s, a, b) == SubSeq(s, PyIndex(Len(s), a) + 1, PyIndex(Len(s), b))
PySliceFrom(s, a) == SubSeq(s, PyIndex(Len(s), a) + 1, Len(s))

\* self.chunk_size = int(self.sample_rate * self.chunk_duration)
chunk_size == (cfg.sample_rate * cfg.chunk_duration) \div 10
\* overlap_samples = int(self.overlap_duration * self.sample_rate)
overlap_samples == (cfg.overlap_duration * cfg.sample_rate) \div 10
\* buffer_duration = len(audio_buffer) / sample_rate >= chunk_duration
EnoughAudio(buf) == Len(buf) * 10 >= cfg.chunk_duration * cfg.sample_rate

\* rms = sqrt(mean(chunk**2)); rms < 0.003
IsSilent(chunk) ==
    SumSq(chunk) < SilenceThreshold * SilenceThreshold * Len(chunk)

\* a thread object: its position, the locals of _processing_loop and
\* _process_audio_chunk, and (history) the samples it has dequeued so far,
\* the number of windows it has cut, whether an error of a collaborator was
\* caught while it processed a chunk, and what it has pushed to the streaming
\* engine and submitted to one-shot transcription for the chunk in identified.
\* temp_files are the chunk files realtime_chunk_<t>.wav it has saved and not
\* deleted, named by their chunk number.
NewWorker == [pc |-> "unborn", session |-> 0, audio_buffer |-> <<>>,
              chunk |-> <<>>, chunk_no |-> 0, identified |-> <<>>,
              todo |-> <<>>, heard |-> <<>>, windows |-> 0, erred |-> FALSE,
              pushed |-> <<>>, oneshot |-> <<>>, temp_files |-> {}]

Free(w) == worker[w].pc \in {"unborn", "exited", "unstarted"}
InChunk(w) == worker[w].pc \in {"chunk", "stream", "absorb", "flush",
                                "flush_clear", "others"}

\* ------------------------------------------------------------------- Init
\* no function is applied alone
NoProbe == [fn |-> "none"]

\* the processor after __init__, under a configuration
Fresh(c) ==
    /\ cfg = c
    /\ pyaudio_ok \in BOOLEAN
    /\ is_running = FALSE
    /\ audio_queue = <<>>
    /\ audio_stream = "None"
    /\ processing_thread = <<>>
    /\ target_profile = <<>>
    /\ threshold = DefaultThreshold
    /\ session_transcripts = <<>>
    /\ transcription_buffer = <<>>
    /\ buffer_segments = <<>>
    /\ buffer_start_time = <<>>
    /\ buffer_duration_target = BufferDurationTarget
    /\ last_transcription_time = <<>>
    /\ is_streaming = FALSE
    /\ stream = "None"
    /\ recognizer = "None"
    /\ stream_pending = <<>>
    /\ worker = [w \in Workers |-> NewWorker]
    /\ mpc = "idle"
    /\ m_raising = FALSE
    /\ temp_items = <<>>
    /\ recent_audio = <<>>
    /\ level_left = 0
    /\ audio_level = 0
    /\ now = 1
    /\ captured = 0
    /\ chunks_cut = 0
    /\ starts = 0
    /\ silent_used = FALSE
    /\ flushed = << >>
    /\ stop_seen = {}
    /\ summary = <<>>

Constructed(c) == Fresh(c) /\ probe = NoProbe

Init == Constructed(DefaultConfig)

InitWindow == \E c \in Configs : Constructed(c)

\* ------------------------------------------------------- variable groups
cfgVars  == << cfg, pyaudio_ok, probe >>
bufVars  == << transcription_buffer, buffer_segments, buffer_start_time,
               last_transcription_time >>
strVars  == << is_streaming, stream, recognizer >>
lvlVars  == << temp_items, recent_audio, level_left, audio_level >>
callVars == << stop_seen, summary, starts >>
mainVars == << mpc, m_raising, lvlVars, callVars >>
sessVars == << audio_stream, processing_thread, target_profile, threshold >>
histVars == << silent_used, flushed >>

\* ------------------------------------------------- external collaborators
\* diarize(): time-stamped segments inside the window (tenths of a second)
Seg(s, e, l) == [start |-> s, end |-> e, speaker_label |-> l, duration |-> e - s]

WindowDuration(chunk) == (Len(chunk) * 10) \div cfg.sample_rate

DiarOutcomes(chunk) ==
    LET d == WindowDuration(chunk) IN
    { <<>>, << Seg(0, d, "SPEAKER_00") >>,
      << Seg(0, 10, "SPEAKER_00"), Seg(10, d, "SPEAKER_01") >> }

\* extract_embedding + compare_embeddings per segment: <<similarity>>, or
\* <<>> when one of them raises
IdentVectors(n) ==
    IF n = 0 THEN { <<>> }
    ELSE IF n = 1 THEN { << <<>> >> }
    ELSE { << <<80>>, <<60>> >>, << <<80>>, <<80>> >> }

SpanId(seg) == << seg.chunk, seg.start >>

\* ------------------------------------------------------------ device thread
\* _audio_callback: one frame of n samples of amplitude a
AudioCallback(n, a) ==
    /\ audio_stream = "started"
    /\ audio_queue' = Append(audio_queue,
                             [k \in 1..n |-> [i |-> captured + k, a |-> a]])
    /\ captured' = captured + n
    /\ UNCHANGED << cfgVars, is_running, sessVars, session_transcripts, bufVars,
                    buffer_duration_target, strVars, stream_pending, worker,
                    mainVars, now, chunks_cut, histVars >>

\* the capture device is unplugged or closed by the platform: the stream
\* object stays in audio_stream, _audio_callback is not called any more and
\* nothing in the code is told
DeviceFails ==
    /\ audio_stream = "started"
    /\ audio_stream' = "dead"
    /\ UNCHANGED << cfgVars, is_running, audio_queue, processing_thread,
                    target_profile, threshold, session_transcripts, bufVars,
                    buffer_duration_target, strVars, stream_pending, worker,
                    mainVars, now, captured, chunks_cut, histVars >>

\* ------------------------------------------------------------ worker thread
WorkerOnly == << cfgVars, is_running, audio_queue, sessVars,
                 session_transcripts, bufVars, buffer_duration_target,
                 strVars, stream_pending, mainVars, now, captured, chunks_cut,
                 histVars >>

\* while self.is_running:
LoopTest(w) ==
    /\ worker[w].pc = "loop"
    /\ worker' = [worker EXCEPT ![w].pc = IF is_running THEN "get" ELSE "exited"]
    /\ UNCHANGED WorkerOnly

\* audio_queue.get(timeout=0.5) raising queue.Empty: continue
GetTimeout(w) ==
    /\ worker[w].pc = "get"
    /\ audio_queue = <<>>
    /\ worker' = [worker EXCEPT ![w].pc = "loop"]
    /\ UNCHANGED WorkerOnly

\* the cut of the window and the trim of the accumulation buffer
CutWindow(buf) == SubSeq(buf, 1, Min(chunk_size, Len(buf)))

\* a trim that drops the whole window, keeping no overlap
DropWindow(buf) == PySliceFrom(buf, chunk_size)

\* audio_buffer = audio_buffer[self.chunk_size - overlap_samples:]
KeepOverlap(buf) == PySliceFrom(buf, chunk_size - overlap_samples)

\* audio_queue.get returning a frame; np.append; the window test and cut
GetFrame(w) ==
    /\ worker[w].pc = "get"
    /\ audio_queue # <<>>
    /\ audio_queue' = Tail(audio_queue)
    /\ LET buf == worker[w].audio_buffer \o Head(audio_queue) IN
       IF EnoughAudio(buf)
       THEN /\ worker' = [worker EXCEPT
                            ![w].pc = "chunk",
                            ![w].chunk = CutWindow(buf),
                            ![w].chunk_no = chunks_cut + 1,
                            ![w].audio_buffer = KeepOverlap(buf),
                            ![w].heard = worker[w].heard \o Head(audio_queue),
                            ![w].windows = worker[w].windows + 1]
            /\ chunks_cut' = chunks_cut + 1
       ELSE /\ worker' = [worker EXCEPT
                            ![w].pc = "loop",
                            ![w].audio_buffer = buf,
                            ![w].heard = worker[w].heard \o Head(audio_queue)]
            /\ UNCHANGED chunks_cut
    /\ UNCHANGED << cfgVars, is_running, sessVars, session_transcripts, bufVars,
                    buffer_duration_target, strVars, stream_pending, mainVars,
                    now, captured, histVars >>

\* a gate that lets every window through
SkipsNothing(chunk) == FALSE

\* _process_audio_chunk, lines 349-356: the silence gate
SkipsChunk(chunk) == IsSilent(chunk)

SkipSilentChunk(w) ==
    /\ worker[w].pc = "chunk"
    /\ SkipsChunk(worker[w].chunk)
    /\ worker' = [worker EXCEPT ![w].pc = "loop"]
    /\ UNCHANGED WorkerOnly

\* a chunk whose error is not caught: the exception leaves the thread
DiarizeErrorEscapes(w) ==
    /\ worker[w].pc = "chunk"
    /\ ~ SkipsChunk(worker[w].chunk)
    /\ silent_used' = (silent_used \/ IsSilent(worker[w].chunk))
    /\ worker' = [worker EXCEPT ![w].pc = "exited", ![w].erred = TRUE]
    /\ UNCHANGED << cfgVars, is_running, audio_queue, sessVars,
                    session_transcripts, bufVars, buffer_duration_target,
                    strVars, stream_pending, mainVars, now, captured,
                    chunks_cut, flushed >>

\* diarize() raises: caught by the handler at line 440, which leaves the
\* chunk file of line 360 where it is
DiarizeError(w) ==
    /\ worker[w].pc = "chunk"
    /\ ~ SkipsChunk(worker[w].chunk)
    /\ silent_used' = (silent_used \/ IsSilent(worker[w].chunk))
    /\ worker' = [worker EXCEPT
                    ![w].pc = "loop",
                    ![w].erred = TRUE,
                    ![w].temp_files = @ \cup {worker[w].chunk_no}]
    /\ UNCHANGED << cfgVars, is_running, audio_queue, sessVars,
                    session_transcripts, bufVars, buffer_duration_target,
                    strVars, stream_pending, mainVars, now, captured,
                    chunks_cut, flushed >>

\* identify_segments, lines 258-297: one enriched segment per input segment
IsTarget(similarity, thr) == similarity >= thr

Enrich(seg, outcome, thr, no) ==
    IF outcome = <<>>
    THEN [start |-> seg.start, end |-> seg.end,
          speaker_label |-> seg.speaker_label, duration |-> seg.duration,
          similarity |-> 0, is_target |-> FALSE, chunk |-> no]
    ELSE [start |-> seg.start, end |-> seg.end,
          speaker_label |-> seg.speaker_label, duration |-> seg.duration,
          similarity |-> outcome[1], is_target |-> IsTarget(outcome[1], thr),
          chunk |-> no]

\* an identification that gives up at the first segment that fails
IdentifyUntilFailure(segments, outcomes, thr, no) ==
    LET done == { k \in 1..Len(segments) :
                    \A j \in 1..k : outcomes[j] # <<>> }
    IN [k \in 1..Cardinality(done) |->
           Enrich(segments[k], outcomes[k], thr, no)]

identify_segments(segments, outcomes, thr, no) ==
    [k \in 1..Len(segments) |-> Enrich(segments[k], outcomes[k], thr, no)]

\* lines 394-414: target segments go to the streaming engine or to the buffer
\* a filter that lets every identified segment through
EverySegment(identified) == identified

TargetSegments(identified) == SelectSeq(identified, LAMBDA x : x.is_target)
OtherSegments(identified) == SelectSeq(identified, LAMBDA x : ~ x.is_target)

\* a routing that always takes the file-based fallback
BufferSink(targets) == IF targets = <<>> THEN "others" ELSE "absorb"

TargetSink(targets) ==
    IF targets = <<>> THEN "others"
    ELSE IF use_streaming /\ is_streaming THEN "stream"
    ELSE "absorb"

\* lines 358-414: diarize, identify every segment, pick the sink of the
\* target segments.  The collaborator calls write no shared state, so the
\* step is taken at the moment is_streaming is read.
AnalyzeChunk(w, segments, outcomes) ==
    /\ worker[w].pc = "chunk"
    /\ ~ SkipsChunk(worker[w].chunk)
    /\ segments \in DiarOutcomes(worker[w].chunk)
    /\ outcomes \in IdentVectors(Len(segments))
    /\ silent_used' = (silent_used \/ IsSilent(worker[w].chunk))
    /\ IF segments = <<>>
       THEN worker' = [worker EXCEPT ![w].pc = "loop"]
       ELSE LET identified == identify_segments(segments, outcomes, threshold,
                                                worker[w].chunk_no)
            IN worker' = [worker EXCEPT
                            ![w].identified = identified,
                            ![w].todo = TargetSegments(identified),
                            ![w].pc = TargetSink(TargetSegments(identified)),
                            ![w].pushed = <<>>,
                            ![w].oneshot = <<>>,
                            ![w].temp_files = @ \cup {worker[w].chunk_no},
                            ![w].erred = (worker[w].erred \/
                                          \E k \in 1..Len(outcomes) :
                                             outcomes[k] = <<>>)]
    /\ UNCHANGED << cfgVars, is_running, audio_queue, sessVars,
                    session_transcripts, bufVars, buffer_duration_target,
                    strVars, stream_pending, mainVars, now, captured,
                    chunks_cut, flushed >>

\* audio[int(start * sr) : int(end * sr)]
SegmentAudio(chunk, seg) ==
    PySlice(chunk, (seg.start * cfg.sample_rate) \div 10,
                   (seg.end * cfg.sample_rate) \div 10)

\* push_audio: (audio_data * 32767).astype(np.int16)
ToInt16(audio) ==
    [k \in 1..Len(audio) |-> [i |-> audio[k].i,
                              a |-> (audio[k].a * Int16Scale) \div 1000]]

\* _stream_target_audio, one iteration of the loop; push_audio raising
\* RuntimeError ends the loop in the handler at line 597
StreamPush(w) ==
    /\ worker[w].pc = "stream"
    /\ worker[w].todo # <<>>
    /\ LET seg == Head(worker[w].todo) IN
       IF is_streaming /\ stream # "None"
       THEN /\ stream_pending' = Append(stream_pending,
                 [chunk |-> seg.chunk, start |-> seg.start,
                  audio |-> ToInt16(SegmentAudio(worker[w].chunk, seg))])
            /\ worker' = [worker EXCEPT
                            ![w].todo = Tail(worker[w].todo),
                            ![w].pushed = Append(worker[w].pushed,
                                [chunk |-> seg.chunk, start |-> seg.start,
                                 audio |-> ToInt16(SegmentAudio(worker[w].chunk,
                                                                seg))]),
                            ![w].pc = IF Tail(worker[w].todo) = <<>>
                                      THEN "others" ELSE "stream"]
       ELSE /\ worker' = [worker EXCEPT ![w].todo = <<>>, ![w].pc = "others",
                                        ![w].erred = TRUE]
            /\ UNCHANGED stream_pending
    /\ silent_used' = (silent_used \/ IsSilent(worker[w].chunk))
    /\ UNCHANGED << cfgVars, is_running, audio_queue, sessVars,
                    session_transcripts, bufVars, buffer_duration_target,
                    strVars, mainVars, now, captured, chunks_cut, flushed >>

\* _add_to_transcription_buffer, one iteration of the loop (lines 457-463)
Absorb(w) ==
    /\ worker[w].pc = "absorb"
    /\ worker[w].todo # <<>>
    /\ LET seg == Head(worker[w].todo) IN
       /\ transcription_buffer' =
              Append(transcription_buffer, SegmentAudio(worker[w].chunk, seg))
       /\ buffer_segments' = Append(buffer_segments, seg)
       /\ flushed' = (SpanId(seg) :> 0) @@ flushed
    /\ silent_used' = (silent_used \/ IsSilent(worker[w].chunk))
    /\ worker' = [worker EXCEPT ![w].todo = Tail(worker[w].todo)]
    /\ UNCHANGED << cfgVars, is_running, audio_queue, sessVars,
                    session_transcripts, buffer_start_time,
                    last_transcription_time, buffer_duration_target, strVars,
                    stream_pending, mainVars, now, captured, chunks_cut >>

\* lines 465-467: track the buffer start time
AbsorbDone(w) ==
    /\ worker[w].pc = "absorb"
    /\ worker[w].todo = <<>>
    /\ buffer_start_time' =
           IF buffer_start_time = <<>> THEN << now >> ELSE buffer_start_time
    /\ worker' = [worker EXCEPT ![w].pc = "flush"]
    /\ UNCHANGED << cfgVars, is_running, audio_queue, sessVars,
                    session_transcripts, transcription_buffer, buffer_segments,
                    last_transcription_time, buffer_duration_target, strVars,
                    stream_pending, mainVars, now, captured, chunks_cut,
                    histVars >>


\* ------------------------------------------ transcription buffer manager
RECURSIVE SumSim(_)
SumSim(segs) == IF segs = <<>> THEN 0 ELSE Head(segs).similarity + SumSim(Tail(segs))

BufferSamples == Len(Flatten(transcription_buffer))

\* lines 485-495: buffer_duration >= target, or a previous flush more than
\* 20 s ago (Python: None and 0.0 are falsy)
ShouldTranscribe(target) ==
    \/ BufferSamples * 10 >= target * cfg.sample_rate
    \/ /\ last_transcription_time # <<>>
       /\ last_transcription_time[1] # 0
       /\ now - last_transcription_time[1] > HardCeiling

\* lines 500-522: every buffered span is part of the submitted unit
BufferedIds == { SpanId(buffer_segments[k]) : k \in 1..Len(buffer_segments) }

Submitted ==
    [id \in DOMAIN flushed |->
        IF id \in BufferedIds THEN flushed[id] + 1 ELSE flushed[id]]

\* lines 406-407 of transcription_service.py and 527-531: the event of a flush
\* transcript["timestamp"] = datetime.now().isoformat(), then append: the
\* event as it is when it joins session_transcripts (stamped keeps, as
\* history, the timestamp it had at that moment)
Stamp(event) == event @@ [timestamp |-> "iso", stamped |-> "iso"]

\* the callback the UI passes to start_monitoring gets the appended dict
\* itself and overwrites its timestamp with strftime('%H:%M:%S')
transcript_callback(event) == [event EXCEPT !.timestamp = "hms"]

\* stamp, append, callback: the event as the three lines leave it in the list
Emit(event) == transcript_callback(Stamp(event))

FlushEvent(no) ==
    Emit([kind |-> "flush", chunk |-> no, start |-> << 0 >>,
          end |-> << (BufferSamples * 10) \div cfg.sample_rate >>,
          is_target |-> TRUE, sim_num |-> SumSim(buffer_segments),
          sim_den |-> Len(buffer_segments)])

OtherEvent(seg) ==
    Emit([kind |-> "other", chunk |-> seg.chunk, start |-> << seg.start >>,
          end |-> << seg.end >>, is_target |-> seg.is_target,
          sim_num |-> seg.similarity, sim_den |-> 1])

StreamEvent(item) ==
    Emit([kind |-> "stream", chunk |-> item.chunk, start |-> <<>>, end |-> <<>>,
          is_target |-> TRUE, sim_num |-> 0, sim_den |-> 1])

\* _process_transcription_buffer returning without a flush (lines 480-497)
FlushSkip(w) ==
    /\ worker[w].pc = "flush"
    /\ transcription_buffer = <<>> \/ ~ ShouldTranscribe(buffer_duration_target)
    /\ worker' = [worker EXCEPT ![w].pc = "others"]
    /\ UNCHANGED WorkerOnly

\* lines 497-541: concatenate, transcribe as one unit, record the event
FlushSubmit(w, text) ==
    /\ worker[w].pc = "flush"
    /\ transcription_buffer # <<>>
    /\ ShouldTranscribe(buffer_duration_target)
    /\ flushed' = Submitted
    /\ silent_used' = (silent_used \/ IsSilent(worker[w].chunk))
    /\ session_transcripts' =
           IF text THEN Append(session_transcripts, FlushEvent(worker[w].chunk_no))
           ELSE session_transcripts
    /\ worker' = [worker EXCEPT ![w].pc = "flush_clear"]
    /\ UNCHANGED << cfgVars, is_running, audio_queue, sessVars, bufVars,
                    buffer_duration_target, strVars, stream_pending, mainVars,
                    now, captured, chunks_cut >>

\* lines 543-561 and _clear_transcription_buffer
FlushClear(w) ==
    /\ worker[w].pc = "flush_clear"
    /\ transcription_buffer' = <<>>
    /\ buffer_segments' = <<>>
    /\ buffer_start_time' = <<>>
    /\ last_transcription_time' = << now >>
    /\ worker' = [worker EXCEPT ![w].pc = "others"]
    /\ UNCHANGED << cfgVars, is_running, audio_queue, sessVars,
                    session_transcripts, buffer_duration_target, strVars,
                    stream_pending, mainVars, now, captured, chunks_cut,
                    histVars >>

\* lines 416-438: one-shot transcription of the other speakers (text: the
\* engine returned text for them), cleanup
OtherEvents(segs, text) ==
    IF text THEN [k \in 1..Len(segs) |-> OtherEvent(segs[k])] ELSE <<>>

Others(w, text) ==
    /\ worker[w].pc = "others"
    /\ LET others == OtherSegments(worker[w].identified) IN
       /\ others = <<>> => text
       /\ session_transcripts' = session_transcripts \o OtherEvents(others, text)
    /\ silent_used' = (silent_used \/ IsSilent(worker[w].chunk))
    /\ worker' = [worker EXCEPT
                    ![w].pc = "loop",
                    ![w].oneshot = OtherSegments(worker[w].identified),
                    ![w].temp_files = @ \ {worker[w].chunk_no}]
    /\ UNCHANGED << cfgVars, is_running, audio_queue, sessVars, bufVars,
                    buffer_duration_target, strVars, stream_pending, mainVars,
                    now, captured, chunks_cut, flushed >>

\* ------------------------------------------------------------ engine thread
\* recognized_handler -> _handle_stream_transcript (lines 600-628)
EngineRecognized(text) ==
    /\ recognizer = "running"
    /\ stream_pending # <<>>
    /\ stream_pending' = Tail(stream_pending)
    /\ session_transcripts' =
           IF text THEN Append(session_transcripts, StreamEvent(Head(stream_pending)))
           ELSE session_transcripts
    /\ UNCHANGED << cfgVars, is_running, audio_queue, sessVars, bufVars,
                    buffer_duration_target, strVars, worker, mainVars, now,
                    captured, chunks_cut, histVars >>

\* stopped_handler: the engine ends the session on its own
EngineSessionStopped ==
    /\ recognizer = "running"
    /\ is_streaming' = FALSE
    /\ recognizer' = "stopped"
    /\ UNCHANGED << cfgVars, is_running, audio_queue, sessVars,
                    session_transcripts, bufVars, buffer_duration_target,
                    stream, stream_pending, worker, mainVars, now, captured,
                    chunks_cut, histVars >>

\* the wall clock
Tick ==
    /\ now' = now + TickStep
    /\ UNCHANGED << cfgVars, is_running, audio_queue, sessVars,
                    session_transcripts, bufVars, buffer_duration_target,
                    strVars, stream_pending, worker, mainVars, captured,
                    chunks_cut, histVars >>


\* ------------------------------------------------------------ caller thread
\* A call that has finished rests in a return position ("start_noop",
\* "start_raise", "stop_return", "stop_raise", "level_return") where its
\* result is visible, and Return hands control back to the caller.
MainOnly == << cfgVars, audio_queue, worker, now, captured, chunks_cut,
               histVars >>

\* self.threshold = threshold or self.config.similarity_threshold
ThresholdFor(arg) ==
    IF arg = <<>> \/ arg[1] = 0 THEN DefaultThreshold ELSE arg[1]

\* start_monitoring, lines 154-156: already running
\* a start_monitoring that reloads the session parameters of a running session
RestartWhileRunning ==
    /\ mpc = "idle"
    /\ is_running
    /\ mpc' = "start_noop"
    /\ threshold' = 50
    /\ session_transcripts' = <<>>
    /\ UNCHANGED << MainOnly, is_running, audio_stream, processing_thread,
                    target_profile, bufVars, buffer_duration_target, strVars,
                    stream_pending, m_raising, lvlVars, callVars >>

StartWhileRunning ==
    /\ mpc = "idle"
    /\ is_running
    /\ mpc' = "start_noop"
    /\ UNCHANGED << MainOnly, is_running, sessVars, session_transcripts,
                    bufVars, buffer_duration_target, strVars, stream_pending,
                    m_raising, lvlVars, callVars >>

\* lines 158-159: pyaudio missing
StartNoPyaudio ==
    /\ mpc = "idle"
    /\ ~ is_running
    /\ ~ pyaudio_ok
    /\ mpc' = "start_raise"
    /\ UNCHANGED << MainOnly, is_running, sessVars, session_transcripts,
                    bufVars, buffer_duration_target, strVars, stream_pending,
                    m_raising, lvlVars, callVars >>

\* lines 162-172: load the profile, take the arguments, reset the session
StartLoadProfile(arg) ==
    /\ mpc = "idle"
    /\ ~ is_running
    /\ pyaudio_ok
    /\ starts' = starts + 1
    /\ target_profile' = << "p1" >>
    /\ threshold' = ThresholdFor(arg)
    /\ session_transcripts' = <<>>
    /\ mpc' = "start_streaming"
    /\ UNCHANGED << MainOnly, is_running, audio_stream, processing_thread,
                    bufVars, buffer_duration_target, strVars, stream_pending,
                    m_raising, lvlVars, stop_seen, summary >>

\* load_profile raises: the handler at line 202 calls stop_monitoring
StartProfileFails ==
    /\ mpc = "idle"
    /\ ~ is_running
    /\ pyaudio_ok
    /\ starts' = starts + 1
    /\ mpc' = "stop_flag"
    /\ m_raising' = TRUE
    /\ UNCHANGED << MainOnly, is_running, sessVars, session_transcripts,
                    bufVars, buffer_duration_target, strVars, stream_pending,
                    lvlVars, stop_seen, summary >>

\* lines 175-180 and start_streaming: "ok", or a failure before
\* ("fail_early") or after ("fail_late") stream and recognizer were created
StartStreaming(outcome) ==
    /\ mpc = "start_streaming"
    /\ outcome \in {"ok", "fail_early", "fail_late"}
    /\ IF ~ use_streaming \/ is_streaming
       THEN /\ outcome = "ok"
            /\ mpc' = "start_audio"
            /\ UNCHANGED << strVars, stream_pending, m_raising >>
       ELSE /\ is_streaming' = (outcome = "ok")
            /\ stream' = IF outcome = "fail_early" THEN stream ELSE "open"
            /\ recognizer' = IF outcome = "fail_early" THEN recognizer
                             ELSE IF outcome = "ok" THEN "running" ELSE "stopped"
            /\ stream_pending' = IF outcome = "fail_early" THEN stream_pending
                                 ELSE <<>>
            /\ mpc' = IF outcome = "ok" THEN "start_audio" ELSE "stop_flag"
            /\ m_raising' = (outcome # "ok")
    /\ UNCHANGED << MainOnly, is_running, sessVars, session_transcripts,
                    bufVars, buffer_duration_target, lvlVars, callVars >>

\* _start_audio_stream: p.open raises ("open_fail"), start_stream raises
\* ("start_fail"), or the stream runs
StartAudio(outcome) ==
    /\ mpc = "start_audio"
    /\ outcome \in {"ok", "open_fail", "start_fail"}
    /\ audio_stream' = IF outcome = "ok" THEN "started"
                       ELSE IF outcome = "start_fail" THEN "open"
                       ELSE audio_stream
    /\ mpc' = IF outcome = "ok" THEN "start_thread" ELSE "stop_flag"
    /\ m_raising' = (outcome # "ok")
    /\ UNCHANGED << MainOnly, is_running, processing_thread, target_profile,
                    threshold, session_transcripts, bufVars,
                    buffer_duration_target, strVars, stream_pending, lvlVars,
                    callVars >>

\* lines 186-193: is_running = True, create and start the worker thread
FreshSlot == CHOOSE w \in Workers : Free(w) /\ \A v \in Workers : Free(v) => w <= v

StartThread(ok) ==
    /\ mpc = "start_thread"
    /\ \E w \in Workers : Free(w)
    /\ is_running' = TRUE
    /\ processing_thread' = << FreshSlot >>
    /\ worker' = [worker EXCEPT ![FreshSlot] =
                    [NewWorker EXCEPT !.pc = IF ok THEN "loop" ELSE "unstarted",
                                      !.session = starts]]
    /\ mpc' = IF ok THEN "idle" ELSE "stop_flag"
    /\ m_raising' = ~ ok
    /\ UNCHANGED << cfgVars, audio_queue, now, captured, chunks_cut, histVars,
                    audio_stream, target_profile, threshold,
                    session_transcripts, bufVars, buffer_duration_target,
                    strVars, stream_pending, lvlVars, callVars >>

\* stop_monitoring, line 216; called by the caller or by start_monitoring's
\* exception handler
StopBegin ==
    /\ mpc \in {"idle", "stop_flag"}
    /\ is_running' = FALSE
    /\ stop_seen' = BufferedIds
    /\ mpc' = "stop_streaming"
    /\ UNCHANGED << MainOnly, sessVars, session_transcripts, bufVars,
                    buffer_duration_target, strVars, stream_pending, m_raising,
                    lvlVars, summary, starts >>

\* a stop_monitoring that leaves the streaming session alone
StopKeepsStreaming ==
    /\ mpc = "stop_streaming"
    /\ mpc' = "stop_flush"
    /\ UNCHANGED << MainOnly, is_running, sessVars, session_transcripts,
                    bufVars, buffer_duration_target, strVars, stream_pending,
                    m_raising, lvlVars, callVars >>

\* lines 218-221 and stop_streaming
StopStreaming ==
    /\ mpc = "stop_streaming"
    /\ IF use_streaming /\ is_streaming
       THEN /\ is_streaming' = FALSE
            /\ stream' = "None"
            /\ recognizer' = "None"
            /\ stream_pending' = <<>>
       ELSE UNCHANGED << strVars, stream_pending >>
    /\ mpc' = "stop_flush"
    /\ UNCHANGED << MainOnly, is_running, sessVars, session_transcripts,
                    bufVars, buffer_duration_target, m_raising, lvlVars,
                    callVars >>

\* lines 224-228 with an empty buffer
StopNoFlush ==
    /\ mpc = "stop_flush"
    /\ transcription_buffer = <<>>
    /\ mpc' = "stop_audio"
    /\ UNCHANGED << MainOnly, is_running, sessVars, session_transcripts,
                    bufVars, buffer_duration_target, strVars, stream_pending,
                    m_raising, lvlVars, callVars >>

\* lines 224-228: buffer_duration_target = 0, then the flush of
\* _process_transcription_buffer up to the recorded event
StopFlush(text) ==
    /\ mpc = "stop_flush"
    /\ transcription_buffer # <<>>
    /\ buffer_duration_target' = 0
    /\ IF ShouldTranscribe(0)
       THEN /\ flushed' = Submitted
            /\ session_transcripts' =
                 IF text
                 THEN Append(session_transcripts,
                        FlushEvent(buffer_segments[Len(buffer_segments)].chunk))
                 ELSE session_transcripts
            /\ mpc' = "stop_clear"
       ELSE /\ mpc' = "stop_audio"
            /\ UNCHANGED << flushed, session_transcripts >>
    /\ UNCHANGED << cfgVars, audio_queue, worker, now, captured, chunks_cut,
                    silent_used, is_running, sessVars, bufVars, strVars,
                    stream_pending, m_raising, lvlVars, callVars >>

\* the end of that flush: _clear_transcription_buffer
StopFlushClear ==
    /\ mpc = "stop_clear"
    /\ transcription_buffer' = <<>>
    /\ buffer_segments' = <<>>
    /\ buffer_start_time' = <<>>
    /\ last_transcription_time' = << now >>
    /\ mpc' = "stop_audio"
    /\ UNCHANGED << MainOnly, is_running, sessVars, session_transcripts,
                    buffer_duration_target, strVars, stream_pending, m_raising,
                    lvlVars, callVars >>

\* lines 231-238
StopAudio ==
    /\ mpc = "stop_audio"
    /\ audio_stream' = "None"
    /\ mpc' = "stop_join"
    /\ UNCHANGED << MainOnly, is_running, processing_thread, target_profile,
                    threshold, session_transcripts, bufVars,
                    buffer_duration_target, strVars, stream_pending, m_raising,
                    lvlVars, callVars >>

\* lines 241-243: no thread, or join returns because the worker has exited,
\* or join(timeout=5.0) gives up on a worker that is inside a chunk
StopJoin ==
    /\ mpc = "stop_join"
    /\ \/ processing_thread = <<>>
       \/ /\ processing_thread # <<>>
          /\ \/ worker[processing_thread[1]].pc = "exited"
             \/ InChunk(processing_thread[1])
    /\ processing_thread' = <<>>
    /\ mpc' = "stop_summary"
    /\ UNCHANGED << MainOnly, is_running, audio_stream, target_profile,
                    threshold, session_transcripts, bufVars,
                    buffer_duration_target, strVars, stream_pending, m_raising,
                    lvlVars, callVars >>

\* line 242 on a thread whose start() failed: join raises RuntimeError, which
\* leaves stop_monitoring at once
StopJoinRaises ==
    /\ mpc = "stop_join"
    /\ processing_thread # <<>>
    /\ worker[processing_thread[1]].pc = "unstarted"
    /\ mpc' = "stop_raise"
    /\ UNCHANGED << MainOnly, is_running, sessVars, session_transcripts,
                    bufVars, buffer_duration_target, strVars, stream_pending,
                    m_raising, lvlVars, callVars >>

\* lines 245-256: the values of the summary are evaluated one after the
\* other, without a lock; first len(self.session_transcripts)
StopCount ==
    /\ mpc = "stop_summary"
    /\ summary' = << [total_transcripts |-> Len(session_transcripts),
                      transcripts |-> <<>>,
                      target_profile |-> <<>>] >>
    /\ mpc' = "stop_summary_list"
    /\ UNCHANGED << MainOnly, is_running, sessVars, session_transcripts,
                    bufVars, buffer_duration_target, strVars, stream_pending,
                    m_raising, lvlVars, stop_seen, starts >>

\* lines 257-269: then self.session_transcripts.copy() and the profile
StopSummary ==
    /\ mpc = "stop_summary_list"
    /\ summary' = << [summary[1] EXCEPT !.transcripts = session_transcripts,
                                        !.target_profile = target_profile] >>
    /\ mpc' = "stop_return"
    /\ UNCHANGED << MainOnly, is_running, sessVars, session_transcripts,
                    bufVars, buffer_duration_target, strVars, stream_pending,
                    m_raising, lvlVars, stop_seen, starts >>

\* stop_monitoring ran in start_monitoring's handler (line 204): whether it
\* returned or raised, start_monitoring ends with an exception
StartRaises ==
    /\ mpc \in {"stop_return", "stop_raise"}
    /\ m_raising
    /\ mpc' = "start_raise"
    /\ m_raising' = FALSE
    /\ summary' = <<>>
    /\ stop_seen' = {}
    /\ UNCHANGED << MainOnly, is_running, sessVars, session_transcripts,
                    bufVars, buffer_duration_target, strVars, stream_pending,
                    lvlVars, starts >>

\* control is back with the caller
Return ==
    /\ mpc \in {"start_noop", "start_raise", "stop_return", "stop_raise",
                "level_return"}
    /\ ~ m_raising
    /\ mpc' = "idle"
    /\ summary' = <<>>
    /\ stop_seen' = {}
    /\ audio_level' = 0
    /\ UNCHANGED << MainOnly, is_running, sessVars, session_transcripts,
                    bufVars, buffer_duration_target, strVars, stream_pending,
                    m_raising, temp_items, recent_audio, level_left, starts >>

\* get_audio_level, lines 637-638 and 642-646
LevelOf(frames) ==
    LET flat == Flatten(frames) IN
    IF flat = <<>> THEN 0 ELSE Min(1000, (SumAbs(flat) * 10) \div Len(flat))

LevelBegin ==
    /\ mpc = "idle"
    /\ IF ~ is_running \/ audio_queue = <<>>
       THEN /\ audio_level' = 0
            /\ mpc' = "level_return"
            /\ UNCHANGED << temp_items, recent_audio, level_left >>
       ELSE /\ level_left' = Min(PeekLimit, Len(audio_queue))
            /\ temp_items' = <<>>
            /\ recent_audio' = <<>>
            /\ mpc' = "level_get"
            /\ UNCHANGED audio_level
    /\ UNCHANGED << MainOnly, is_running, sessVars, session_transcripts,
                    bufVars, buffer_duration_target, strVars, stream_pending,
                    m_raising, callVars >>

\* lines 646-652: one get_nowait, or the end of the loop
LevelGet ==
    /\ mpc = "level_get"
    /\ IF level_left > 0 /\ audio_queue # <<>>
       THEN /\ audio_queue' = Tail(audio_queue)
            /\ temp_items' = Append(temp_items, Head(audio_queue))
            /\ recent_audio' = Append(recent_audio, Head(audio_queue))
            /\ level_left' = level_left - 1
            /\ UNCHANGED mpc
       ELSE /\ level_left' = 0
            /\ mpc' = "level_put"
            /\ UNCHANGED << audio_queue, temp_items, recent_audio >>
    /\ UNCHANGED << cfgVars, worker, now, captured, chunks_cut, histVars,
                    is_running, sessVars, session_transcripts, bufVars,
                    buffer_duration_target, strVars, stream_pending, m_raising,
                    audio_level, callVars >>

\* lines 655-666: one put, or the level of the frames looked at
LevelPut ==
    /\ mpc = "level_put"
    /\ IF temp_items # <<>>
       THEN /\ audio_queue' = Append(audio_queue, Head(temp_items))
            /\ temp_items' = Tail(temp_items)
            /\ UNCHANGED << mpc, recent_audio, audio_level >>
       ELSE /\ audio_level' = LevelOf(recent_audio)
            /\ recent_audio' = <<>>
            /\ mpc' = "level_return"
            /\ UNCHANGED << audio_queue, temp_items >>
    /\ UNCHANGED << cfgVars, worker, now, captured, chunks_cut, histVars,
                    is_running, sessVars, session_transcripts, bufVars,
                    buffer_duration_target, strVars, stream_pending, m_raising,
                    level_left, callVars >>

\* ------------------------------------------------------------ specification
\* the worker's loop up to the diarizer
WindowStep(w) ==
    \/ LoopTest(w) \/ GetTimeout(w) \/ GetFrame(w)
    \/ SkipSilentChunk(w) \/ DiarizeError(w)

\* the rest of _process_audio_chunk
ChunkStep(w) ==
    \/ StreamPush(w) \/ Absorb(w) \/ AbsorbDone(w)
    \/ FlushSkip(w) \/ FlushClear(w)
    \/ \E text \in BOOLEAN : FlushSubmit(w, text)
    \/ \E text \in BOOLEAN : Others(w, text)

Analyze(w) ==
    \E segments \in DiarOutcomes(worker[w].chunk) :
      \E outcomes \in IdentVectors(Len(segments)) :
         AnalyzeChunk(w, segments, outcomes)

Start ==
    \/ StartWhileRunning
    \/ StartNoPyaudio
    \/ \E arg \in ThresholdArgs : StartLoadProfile(arg) /\ starts' <= MaxStarts
    \/ StartProfileFails /\ starts' <= MaxStarts
    \/ \E outcome \in {"ok", "fail_early", "fail_late"} : StartStreaming(outcome)
    \/ \E outcome \in {"ok", "open_fail", "start_fail"} : StartAudio(outcome)
    \/ \E ok \in BOOLEAN : StartThread(ok)
    \/ StartRaises

Stop ==
    \/ StopBegin
    \/ StopStreaming
    \/ StopNoFlush
    \/ \E text \in BOOLEAN : StopFlush(text)
    \/ StopFlushClear
    \/ StopAudio
    \/ StopJoin
    \/ StopJoinRaises
    \/ StopCount
    \/ StopSummary

Level == LevelBegin \/ LevelGet \/ LevelPut

Device(limit) ==
    \E f \in Frames : /\ Len(audio_queue) < MaxQueue
                      /\ captured + f.n <= limit
                      /\ AudioCallback(f.n, f.a)

Clock == now < MaxTime /\ Tick

\* The pipeline with every collaborator outcome and the passing of time;
\* the caller starts and stops sessions.
Next ==
    \/ Device(MaxCaptured)
    \/ \E w \in Workers : WindowStep(w) \/ Analyze(w) \/ ChunkStep(w)
    \/ \E text \in BOOLEAN : EngineRecognized(text)
    \/ EngineSessionStopped
    \/ Clock
    \/ Start
    \/ Stop
    \/ Return

Spec == Init /\ [][Next]_vars

\* The window assembler under every configuration: one session whose caller
\* polls get_audio_level, with a diarizer that finds no speech.
NextWindow ==
    \/ Device(MaxWindowed)
    \/ \E w \in Workers : WindowStep(w) \/ AnalyzeChunk(w, <<>>, <<>>)
    \/ \E arg \in ThresholdArgs : StartLoadProfile(arg) /\ starts' <= MaxStarts
    \/ StartStreaming("ok")
    \/ StartAudio("ok")
    \/ StartThread(TRUE)
    \/ Level
    \/ Return

SpecWindow == InitWindow /\ [][NextWindow]_vars

\* One session that its caller never stops: several windows and every outcome
\* of the diarizer, the identifier, the transcriber and the streaming engine.
\* No flush has happened before, so last_transcription_time stays None and
\* the few seconds buffered here are never flushed.
NextChunks ==
    \/ Device(MaxWindowed)
    \/ \E w \in Workers :
          \/ WindowStep(w) \/ Analyze(w)
          \/ StreamPush(w) \/ Absorb(w) \/ AbsorbDone(w) \/ FlushSkip(w)
          \/ \E text \in BOOLEAN : Others(w, text)
    \/ \E text \in BOOLEAN : EngineRecognized(text)
    \/ EngineSessionStopped
    \/ \E arg \in ThresholdArgs : StartLoadProfile(arg) /\ starts' <= MaxStarts
    \/ StartStreaming("ok")
    \/ StartAudio("ok")
    \/ StartThread(TRUE)

SpecChunks == Init /\ [][NextChunks]_vars

\* The same session with a capture device that can fail. The worker is a
\* thread of its own and keeps being scheduled.
WorkerRuns(w) ==
    \/ WindowStep(w) \/ Analyze(w)
    \/ StreamPush(w) \/ Absorb(w) \/ AbsorbDone(w) \/ FlushSkip(w)
    \/ \E text \in BOOLEAN : Others(w, text)

NextDevice == NextChunks \/ DeviceFails

SpecDevice ==
    /\ Init
    /\ [][NextDevice]_vars
    /\ \A w \in Workers : WF_vars(WorkerRuns(w))

\* ------------------------------------------------------------------ claims
\* the thread object of the running or last started session
OwnWorkers == { w \in Workers : worker[w].session = starts }
\* samples from one window's start to the next
Step == chunk_size - overlap_samples
StopEnded == mpc \in {"stop_return", "stop_raise"}
InHandler == mpc \in {"stop_flag", "stop_streaming", "stop_flush", "stop_clear",
                      "stop_audio", "stop_join", "stop_summary",
                      "stop_summary_list", "stop_return", "stop_raise"}
\* the worker of the running session waits for the next window
WorkerWaits ==
    /\ is_running
    /\ mpc = "idle"
    /\ processing_thread # <<>>
    /\ worker[processing_thread[1]].pc \in {"loop", "get"}

\* C1: when stop_monitoring returns, every span that was in the buffer when
\* it was called has been submitted for transcription exactly once.
C1_SubmittedExactlyOnce ==
    mpc = "stop_return" => \A id \in stop_seen : flushed[id] = 1

\* C2: when stop_monitoring returns, no span is left in the transcription
\* buffer and every span ever appended to it has been part of a flush.
C2_NothingLostOnShutdown ==
    mpc = "stop_return" =>
        /\ transcription_buffer = <<>>
        /\ \A id \in DOMAIN flushed : flushed[id] >= 1

\* C3: in a running session buffered speech is flushed within the 20 s hard
\* ceiling: while the worker waits for the next window, no buffered span is
\* older than the ceiling, also before the first flush of the session.
C3_FlushWithinCeiling ==
    (WorkerWaits /\ transcription_buffer # <<>> /\ buffer_start_time # <<>>)
        => now - buffer_start_time[1] <= HardCeiling

\* C4: the worker's flush check with a non-empty buffer flushes exactly when
\* the buffered duration is at least 15 s or more than 20 s have passed since
\* the previous flush.
PolicySaysFlush ==
    \/ BufferSamples * 10 >= BufferDurationTarget * cfg.sample_rate
    \/ /\ last_transcription_time # <<>>
       /\ now - last_transcription_time[1] > HardCeiling

C4_FlushPolicy ==
    [][\A w \in Workers :
         (worker[w].pc = "flush" /\ transcription_buffer # <<>>) =>
            /\ worker'[w].pc = "flush_clear" => PolicySaysFlush
            /\ worker'[w].pc = "others" => ~ PolicySaysFlush]_vars

\* C5: the k-th window of a worker is the chunk_size samples that start
\* (k - 1) * (chunk_size - overlap_samples) samples into the stream it has
\* dequeued: every window has chunk_size samples, begins with the last
\* overlap_samples samples of the window before it, and no dequeued sample
\* between two windows is skipped.
C5_WindowsTileTheStream ==
    \A w \in Workers :
        worker[w].windows >= 1 =>
            /\ Len(worker[w].chunk) = chunk_size
            /\ worker[w].chunk =
                   SubSeq(worker[w].heard,
                          (worker[w].windows - 1) * Step + 1,
                          (worker[w].windows - 1) * Step + chunk_size)

C5_Witness ==
    \E w \in Workers : /\ worker[w].windows >= 2
                       /\ worker[w].pc = "chunk"
                       /\ overlap_samples >= 1
                       /\ cfg # DefaultConfig

\* C6: every window holds the captured samples of its place in capture
\* order, and the events of session_transcripts are in the order of their
\* chunks.
C6_CaptureOrder ==
    /\ \A w \in Workers :
          worker[w].windows >= 1 =>
             \A j \in 1..Len(worker[w].chunk) :
                worker[w].chunk[j].i = (worker[w].windows - 1) * Step + j
    /\ \A a, b \in 1..Len(session_transcripts) :
          a < b => session_transcripts[a].chunk <= session_transcripts[b].chunk

\* C7: the samples a worker has dequeued are the captured samples in capture
\* order, whatever get_audio_level calls ran meanwhile, and the level
\* returned lies in [0, 1].
C7_LevelOnlyObserves ==
    /\ \A w \in Workers :
          \A k \in 1..Len(worker[w].heard) : worker[w].heard[k].i = k
    /\ audio_level \in 0..1000

\* C8: the processor runs only with a loaded profile and a started audio
\* stream, and every stop_monitoring call ends with is_running false,
\* audio_stream None and processing_thread None.
C8_SessionLifecycle ==
    /\ is_running => (target_profile # <<>> /\ audio_stream = "started")
    /\ \A w \in Workers :
          ~ Free(w) => (target_profile # <<>> /\ worker[w].session >= 1)
    /\ StopEnded => /\ ~ is_running
                    /\ audio_stream = "None"
                    /\ processing_thread = <<>>

C10_SilentWindowIgnored == ~ silent_used

C10_Witness ==
    \E w \in Workers : /\ worker[w].windows >= 1
                       /\ IsSilent(worker[w].chunk)
                       /\ worker[w].pc = "loop"

\* ------------------------------------------- identification applied alone
\* every variable of the pipeline
pipelineVars == << cfg, pyaudio_ok, is_running, audio_queue, sessVars,
                   session_transcripts, bufVars, buffer_duration_target,
                   strVars, stream_pending, worker, mainVars, now, captured,
                   chunks_cut, histVars >>

\* what extract_embedding + compare_embeddings give for one segment: a
\* failure, or a similarity
Similarities == { <<>>, <<0>>, <<60>>, <<80>> }
\* threshold values in [0, 1]
Thresholds == { 0, 50, 75, 100 }
\* the diarizer's segments of a 3 s file
ProbeSegments ==
    { << Seg(0, 30, "SPEAKER_00") >>,
      << Seg(0, 10, "SPEAKER_00"), Seg(10, 30, "SPEAKER_01") >> }

InitIdentify ==
    /\ Fresh(DefaultConfig)
    /\ \E segments \in ProbeSegments, thr \in Thresholds,
          lo \in Thresholds, hi \in Thresholds :
         \E outcomes \in [1..Len(segments) -> Similarities] :
            /\ lo <= hi
            /\ probe = [fn |-> "identify", segments |-> segments,
                        outcomes |-> outcomes, thr |-> thr, lo |-> lo,
                        hi |-> hi, direct |-> <<>>, low |-> <<>>,
                        high |-> <<>>]

\* identify_segments called with the threshold thr
IdentifyDirect ==
    /\ probe.fn = "identify"
    /\ probe.direct = <<>>
    /\ probe' = [probe EXCEPT !.direct =
                    identify_segments(probe.segments, probe.outcomes,
                                      probe.thr, 1)]
    /\ UNCHANGED pipelineVars

\* what a session started with the threshold argument arg identifies:
\* line 166 of start_monitoring, then lines 381-386
IdentifyInSession(arg) ==
    identify_segments(probe.segments, probe.outcomes, ThresholdFor(<< arg >>), 1)

IdentifyLow ==
    /\ probe.fn = "identify"
    /\ probe.low = <<>>
    /\ probe' = [probe EXCEPT !.low = IdentifyInSession(probe.lo)]
    /\ UNCHANGED pipelineVars

IdentifyHigh ==
    /\ probe.fn = "identify"
    /\ probe.high = <<>>
    /\ probe' = [probe EXCEPT !.high = IdentifyInSession(probe.hi)]
    /\ UNCHANGED pipelineVars

NextIdentify == IdentifyDirect \/ IdentifyLow \/ IdentifyHigh

SpecIdentify == InitIdentify /\ [][NextIdentify]_vars

\* C11: every segment identify_segments returns is marked is_target exactly
\* when its recorded similarity is at least the threshold of the call.
C11_TargetIffAtLeastThreshold ==
    probe.fn = "identify" =>
        \A k \in 1..Len(probe.direct) :
            probe.direct[k].is_target <=>
                probe.direct[k].similarity >= probe.thr

\* C12: with the same similarities, a session started with the higher of two
\* threshold arguments marks no segment that the session started with the
\* lower one does not mark.
C12_HigherThresholdMarksFewer ==
    (probe.fn = "identify" /\ probe.low # <<>> /\ probe.high # <<>>) =>
        \A k \in 1..Len(probe.high) :
            probe.high[k].is_target => probe.low[k].is_target

\* C13: the start values of the events of session_transcripts that carry
\* one are non-decreasing in the order the events were appended.
C13_StartsNonDecreasing ==
    \A a, b \in 1..Len(session_transcripts) :
        (/\ a < b
         /\ session_transcripts[a].start # <<>>
         /\ session_transcripts[b].start # <<>>)
            => session_transcripts[a].start[1] <= session_transcripts[b].start[1]


\* C14: in a session nobody stops, a worker that has caught an error of the
\* diarizer, the identifier or the streaming engine while it processed a
\* chunk is still in its loop with is_running true, so the windows that follow
\* are cut and analyzed.
C14_ErrorKeepsSession ==
    \A w \in Workers :
        worker[w].erred =>
            /\ is_running
            /\ worker[w].pc \in {"loop", "get", "chunk", "stream", "absorb",
                                 "flush", "others"}

\* after an error in its first window the worker has diarized and identified
\* its second
C14_Witness ==
    \E w \in Workers :
        /\ worker[w].erred
        /\ worker[w].windows = 2
        /\ worker[w].pc = "others"
        /\ worker[w].identified # <<>>

\* ------------------------------------- sessions started with a bad threshold
\* threshold arguments outside [0, 1]: 1.5 and -0.2, in hundredths
InvalidThresholds == { << 150 >>, << -20 >> }

\* Every start_monitoring call is given a threshold outside [0, 1]; the
\* collaborators work.
NextInvalid ==
    \/ Device(MaxCaptured)
    \/ \E w \in Workers : WorkerRuns(w)
    \/ \E text \in BOOLEAN : EngineRecognized(text)
    \/ EngineSessionStopped
    \/ \E arg \in InvalidThresholds :
          StartLoadProfile(arg) /\ starts' <= MaxStarts
    \/ StartStreaming("ok")
    \/ StartAudio("ok")
    \/ StartThread(TRUE)

SpecInvalid == Init /\ [][NextInvalid]_vars

\* C16: a start_monitoring call with a threshold outside [0, 1] never makes
\* the session run: is_running stays false, no worker is started, and when the
\* call is over no audio stream is open.
C16_InvalidThresholdRejected ==
    /\ ~ is_running
    /\ \A w \in Workers : worker[w].pc = "unborn"
    /\ mpc = "idle" => audio_stream = "None"

\* --------------------------------- pipelines whose overlap is not below chunk
\* configurations with overlap_duration >= chunk_duration (2 s / 2 s and
\* 2 s / 3 s)
OverlapConfigs ==
    { [sample_rate |-> 1, chunk_duration |-> 20, overlap_duration |-> 20],
      [sample_rate |-> 1, chunk_duration |-> 20, overlap_duration |-> 30] }

InitOverlap == \E c \in OverlapConfigs : Constructed(c)

SpecOverlap == InitOverlap /\ [][NextWindow]_vars

\* C17: a processor configured with overlap_duration >= chunk_duration cuts
\* no window.
C17_OverlapBelowChunk ==
    cfg.overlap_duration >= cfg.chunk_duration =>
        /\ chunks_cut = 0
        /\ \A w \in Workers : worker[w].windows = 0

\* C15: a running session whose capture device has failed comes to an end by
\* itself: is_running becomes false and no worker is left in its loop.
C15_DeviceLossEndsSession ==
    (audio_stream = "dead" /\ is_running)
        ~> (~ is_running /\ \A w \in Workers : worker[w].pc \in {"unborn", "exited"})

\* ------------------------------------------------------ the end of a session
\* a worker that stop_monitoring gave up waiting for
Abandoned(w) ==
    /\ worker[w].session = starts
    /\ worker[w].pc \notin {"unborn", "unstarted", "exited"}

\* C18: a stop_monitoring call of the caller never raises; when it returns
\* there is a summary, the audio stream is closed, and a worker that is still
\* running is still referenced by processing_thread, where the caller finds it.
C18_StopAlwaysSummarizes ==
    ~ m_raising =>
        /\ mpc # "stop_raise"
        /\ mpc = "stop_return" =>
              /\ summary # <<>>
              /\ audio_stream = "None"
              /\ \A w \in Workers :
                    Abandoned(w) => processing_thread = << w >>

\* ------------------------------------------------- where segment audio goes
\* what _stream_target_audio hands to push_audio for a chunk whose targets all
\* go to the engine
PushedFor(w) ==
    LET targets == TargetSegments(worker[w].identified) IN
    [k \in 1..Len(targets) |->
        [chunk |-> targets[k].chunk, start |-> targets[k].start,
         audio |-> ToInt16(SegmentAudio(worker[w].chunk, targets[k]))]]

IsPrefix(s, t) == Len(s) <= Len(t) /\ SubSeq(t, 1, Len(s)) = s

\* C21: within a session session_transcripts only grows at its end, and the
\* summary stop_monitoring returns lists events of the session in append
\* order, with total_transcripts equal to the number of events it lists.
C21_AppendOnlySummary ==
    [][/\ starts' = starts => IsPrefix(session_transcripts, session_transcripts')
       /\ mpc' = "stop_return" =>
             /\ IsPrefix(summary'[1].transcripts, session_transcripts')
             /\ summary'[1].total_transcripts = Len(summary'[1].transcripts)
      ]_vars

\* C22: an event of session_transcripts has the fields it had when it was
\* appended; the transcript callback it was passed to has changed none.
C22_EventsNeverMutated ==
    \A k \in 1..Len(session_transcripts) :
        session_transcripts[k].timestamp = session_transcripts[k].stamped

\* ---------------------------------------------------- session parameters
\* C23: while is_running stays true target_profile and threshold keep their
\* values, and a start_monitoring call that finds a session running returns
\* having changed nothing of the session: no stream, streaming session or
\* thread is added and the events are kept.
C23_SessionParametersFrozen ==
    [][/\ (is_running /\ is_running') =>
             /\ target_profile' = target_profile
             /\ threshold' = threshold
       /\ (mpc = "idle" /\ mpc' = "start_noop") =>
             UNCHANGED << is_running, sessVars, strVars, worker,
                          session_transcripts, stream_pending >>
      ]_vars

\* start_monitoring has been called on a running session
C23_Witness == mpc = "start_noop" /\ is_running

\* ----------------------------------------------------------- profile store
\* ProfileManager applied alone: probe.files is the profiles directory (file
\* <id>.json -> its JSON content), probe.result the outcome of the last call;
\* probe.made keeps, as history, what create_profile was given for each id and
\* whether a later update, delete or import named that id.
\* ids uuid4 can return, and ids a file to import can carry
ProfileIds == { "u1", "u2" }
ProfileNames == { "ann", "bob" }
\* numpy arrays: a dtype and the values
GivenEmbeddings ==
    { [dtype |-> "float32", values |-> << 1, 2 >>],
      [dtype |-> "float64", values |-> << 3 >>] }

\* a conversion that loses the last element
Truncated(embedding) ==
    SubSeq(embedding.values, 1, Max(Len(embedding.values) - 1, 0))
\* embedding.tolist(): the values as Python floats, no dtype
tolist(embedding) == embedding.values
\* np.array(list): a float64 array of the values
nparray(values) == [dtype |-> "float64", values |-> values]

NoFiles == [id \in {} |-> 0]

InitProfiles ==
    /\ Fresh(DefaultConfig)
    /\ probe = [fn |-> "profiles", files |-> NoFiles, made |-> NoFiles,
                used |-> {}, result |-> [op |-> "none"]]

\* create_profile, lines 58-93: a new uuid4, the profile written by
\* _save_profile (lines 315-339)
CreateProfile(id, name, embedding) ==
    /\ probe.fn = "profiles"
    /\ id \notin probe.used
    /\ id \notin DOMAIN probe.files
    /\ LET profile == [id |-> id, name |-> name,
                       embedding |-> tolist(embedding), modified |-> FALSE]
       IN probe' = [probe EXCEPT
                      !.files = (id :> profile) @@ probe.files,
                      !.made = (id :> [name |-> name, embedding |-> embedding,
                                       touched |-> FALSE]) @@ probe.made,
                      !.used = probe.used \cup {id},
                      !.result = [op |-> "create", id |-> id, outcome |-> "ok",
                                  value |-> << profile >>]]
    /\ UNCHANGED pipelineVars

\* load_profile, lines 108-126: every failure, the missing file included,
\* leaves as ValueError
LoadedProfile(id) ==
    [probe.files[id] EXCEPT !.embedding = nparray(probe.files[id].embedding)]

LoadProfile(id) ==
    /\ probe.fn = "profiles"
    /\ probe' = [probe EXCEPT !.result =
                    IF id \in DOMAIN probe.files
                    THEN [op |-> "load", id |-> id, outcome |-> "ok",
                          value |-> << LoadedProfile(id) >>]
                    ELSE [op |-> "load", id |-> id, outcome |-> "ValueError",
                          value |-> << >>]]
    /\ UNCHANGED pipelineVars

Touch(made, id) ==
    IF id \in DOMAIN made THEN [made EXCEPT ![id].touched = TRUE] ELSE made

Without(files, id) == [k \in DOMAIN files \ {id} |-> files[k]]

\* delete_profile, lines 201-224
DeleteProfile(id) ==
    /\ probe.fn = "profiles"
    /\ probe' = IF id \in DOMAIN probe.files
                THEN [probe EXCEPT
                        !.files = Without(probe.files, id),
                        !.made = Touch(probe.made, id),
                        !.result = [op |-> "delete", id |-> id,
                                    outcome |-> "ok", value |-> << TRUE >>]]
                ELSE [probe EXCEPT
                        !.made = Touch(probe.made, id),
                        !.result = [op |-> "delete", id |-> id,
                                    outcome |-> "ok", value |-> << FALSE >>]]
    /\ UNCHANGED pipelineVars

\* update_profile, lines 246-269: load, change the name, save
UpdateProfile(id, name) ==
    /\ probe.fn = "profiles"
    /\ probe' = IF id \in DOMAIN probe.files
                THEN LET profile == [probe.files[id] EXCEPT
                                        !.name = name, !.modified = TRUE]
                     IN [probe EXCEPT
                           !.files = [probe.files EXCEPT ![id] = profile],
                           !.made = Touch(probe.made, id),
                           !.result = [op |-> "update", id |-> id,
                                       outcome |-> "ok",
                                       value |-> << profile >>]]
                ELSE [probe EXCEPT
                        !.made = Touch(probe.made, id),
                        !.result = [op |-> "update", id |-> id,
                                    outcome |-> "ValueError",
                                    value |-> << >>]]
    /\ UNCHANGED pipelineVars

\* import_profile, lines 375-417, of a file that carries an id: the profile
\* is saved under that id, whatever is stored there
ImportProfile(id, name, embedding) ==
    /\ probe.fn = "profiles"
    /\ LET profile == [id |-> id, name |-> name,
                       embedding |-> tolist(nparray(tolist(embedding))),
                       modified |-> FALSE]
       IN probe' = [probe EXCEPT
                      !.files = (id :> profile) @@ Without(probe.files, id),
                      !.made = Touch(probe.made, id),
                      !.used = probe.used \cup {id},
                      !.result = [op |-> "import", id |-> id, outcome |-> "ok",
                                  value |-> << profile >>]]
    /\ UNCHANGED pipelineVars

NextProfiles ==
    \E id \in ProfileIds :
       \/ \E name \in ProfileNames, embedding \in GivenEmbeddings :
             \/ CreateProfile(id, name, embedding)
             \/ ImportProfile(id, name, embedding)
       \/ LoadProfile(id)
       \/ DeleteProfile(id)
       \/ \E name \in ProfileNames : UpdateProfile(id, name)

SpecProfiles == InitProfiles /\ [][NextProfiles]_vars

C25_LoadMissingRaisesFileNotFound ==
    [][(/\ probe.fn = "profiles"
        /\ probe'.result.op = "load"
        /\ probe'.result.id \notin DOMAIN probe.files)
           => /\ probe'.result.outcome = "FileNotFoundError"
              /\ probe'.files = probe.files
      ]_vars

\* ------------------------------------------------------ embedding comparison
\* compare_embeddings applied alone to two 1-D embeddings
MaxDim == 2      \* longest embedding compared

EmbeddingValues == { -1, 0, 1 }
Embeddings ==
    UNION { [1..n -> EmbeddingValues] : n \in 1..MaxDim }

RECURSIVE Dot(_, _)
Dot(u, v) == IF u = <<>> THEN 0 ELSE Head(u) * Head(v) + Dot(Tail(u), Tail(v))

\* a float: dot / sqrt(sq1 * sq2), or nan
Float(dot, sq1, sq2) ==
    IF sq1 * sq2 = 0 THEN [kind |-> "nan"]
    ELSE [kind |-> "number", dot |-> dot, sq1 |-> sq1, sq2 |-> sq2]
Zero == Float(0, 1, 1)

\* lines 193-218, the results the call can have: a shape mismatch returns
\* 0.0; otherwise 1 - cosine(e1, e2), which is u.v / (|u| |v|).  With a zero
\* vector the library divides 0 by 0: nan, or an exception that the handler
\* turns into 0.0.  Nothing is raised.
compare_embeddings(e1, e2) ==
    IF Len(e1) # Len(e2)
    THEN { [raised |-> FALSE, value |-> Zero] }
    ELSE IF Dot(e1, e1) * Dot(e2, e2) = 0
    THEN { [raised |-> FALSE, value |-> [kind |-> "nan"]],
           [raised |-> FALSE, value |-> Zero] }
    ELSE { [raised |-> FALSE,
            value |-> Float(Dot(e1, e2), Dot(e1, e1), Dot(e2, e2))] }

InitCompare ==
    /\ Fresh(DefaultConfig)
    /\ \E e1, e2 \in Embeddings :
          probe = [fn |-> "compare", e1 |-> e1, e2 |-> e2, result |-> << >>]

Compare ==
    /\ probe.fn = "compare"
    /\ probe.result = << >>
    /\ \E r \in compare_embeddings(probe.e1, probe.e2) :
          probe' = [probe EXCEPT !.result = << r >>]
    /\ UNCHANGED pipelineVars

NextCompare == Compare

SpecCompare == InitCompare /\ [][NextCompare]_vars

\* C26: compare_embeddings of two embeddings of different dimensions raises.
C26_DimensionMismatchRaises ==
    (/\ probe.fn = "compare"
     /\ probe.result # << >>
     /\ Len(probe.e1) # Len(probe.e2))
        => probe.result[1].raised

\* a similarity in [0, 1]
InUnit(x) ==
    /\ x.kind = "number"
    /\ x.dot >= 0
    /\ x.dot * x.dot <= x.sq1 * x.sq2
IsOne(x) ==
    /\ x.kind = "number"
    /\ x.dot > 0
    /\ x.dot * x.dot = x.sq1 * x.sq2

\* C27: for two embeddings of the same size compare_embeddings returns a
\* similarity in [0, 1], and 1 when both are the same non-zero vector.
C27_SimilarityInUnitInterval ==
    (/\ probe.fn = "compare"
     /\ probe.result # << >>
     /\ Len(probe.e1) = Len(probe.e2))
        => /\ ~ probe.result[1].raised
           /\ InUnit(probe.result[1].value)
           /\ (probe.e1 = probe.e2 /\ Dot(probe.e1, probe.e1) > 0)
                 => IsOne(probe.result[1].value)

\* ------------------------------------------------------ sessions in a row
MaxRestarts == 2      \* start_monitoring calls in a run of SpecRestart

\* Sessions started and stopped one after the other; the collaborators work
\* and the diarizer finds no speech.
NextRestart ==
    \/ Device(MaxCaptured)
    \/ \E w \in Workers : WindowStep(w) \/ AnalyzeChunk(w, <<>>, <<>>)
    \/ \E arg \in ThresholdArgs :
          StartLoadProfile(arg) /\ starts' <= MaxRestarts
    \/ StartStreaming("ok")
    \/ StartAudio("ok")
    \/ StartThread(TRUE)
    \/ StopBegin
    \/ StopStreaming
    \/ StopNoFlush
    \/ StopAudio
    \/ StopJoin
    \/ StopCount
    \/ StopSummary
    \/ Return

SpecRestart == Init /\ [][NextRestart]_vars

\* threads that are in _processing_loop
Looping ==
    { w \in Workers :
        worker[w].pc \in {"loop", "get", "chunk", "stream", "absorb", "flush",
                          "flush_clear", "others"} }

\* C28: at most one worker thread is in _processing_loop at any time.
C28_SingleWorker == Cardinality(Looping) <= 1

\* ---------------------------------------------------------------- flushes
\* C29: no buffered span is part of two flushes, the unit a flush submits has
\* the mean similarity of the buffered segments, and the step that ends a
\* flush leaves transcription_buffer and buffer_segments empty and
\* buffer_start_time None.
C29_FlushSubmitsOnceAndClears ==
    [][/\ \A id \in DOMAIN flushed' : flushed'[id] <= 1
       /\ (Len(session_transcripts') = Len(session_transcripts) + 1
           /\ session_transcripts'[Len(session_transcripts')].kind = "flush")
             => LET event == session_transcripts'[Len(session_transcripts')]
                IN /\ event.sim_num = SumSim(buffer_segments)
                   /\ event.sim_den = Len(buffer_segments)
                   /\ event.sim_den > 0
       /\ \A w \in Workers :
             (worker[w].pc = "flush_clear" /\ worker'[w].pc = "others")
                => /\ transcription_buffer' = <<>>
                   /\ buffer_segments' = <<>>
                   /\ buffer_start_time' = <<>>
      ]_vars

C31_SessionStartsEmpty ==
    mpc \in {"start_streaming", "start_audio"} =>
        /\ audio_queue = <<>>
        /\ transcription_buffer = <<>>
        /\ buffer_segments = <<>>

\* -------------------------------------------------------- the worker's exit
\* sessions in a row with worker threads that keep being scheduled
SpecRestartFair ==
    /\ Init
    /\ [][NextRestart]_vars
    /\ \A w \in Workers : WF_vars(WorkerRuns(w))

\* C32: a worker that is in _processing_loop when is_running is false
\* eventually leaves the loop, with or without further frames.
C32_StoppedWorkerExits ==
    \A w \in Workers :
        (~ is_running /\ w \in Looping) ~> (worker[w].pc = "exited")

\* ------------------------------------------------------------ temp files
\* C33: a worker that is not in the middle of a chunk has deleted every chunk
\* file it saved.
C33_ChunkFilesDeleted ==
    \A w \in Workers :
        worker[w].pc \notin {"stream", "absorb", "flush", "flush_clear",
                             "others"}
            => worker[w].temp_files = {}

\* --------------------------------------------------- merging short segments
\* merge_short_segments applied alone
MaxSegs == 3          \* longest segment list merged
MinDuration == 5      \* min_duration = 0.5 s, in tenths

\* a diarization: consecutive segments, each 0.2 s or 1.5 s long, of one of
\* two speakers
RECURSIVE Laid(_, _)
Laid(shapes, from) ==
    IF shapes = <<>> THEN <<>>
    ELSE << Seg(from, from + Head(shapes).d, Head(shapes).who) >>
            \o Laid(Tail(shapes), from + Head(shapes).d)

SegmentLists ==
    { Laid(shapes, 0) :
        shapes \in UNION { [1..n -> [d : {2, 15},
                                    who : {"SPEAKER_00", "SPEAKER_01"}]] :
                             n \in 0..MaxSegs } }

\* lines 308-318: the loop over segments[1:], with the list built so far and
\* the segment being grown
RECURSIVE MergeLoop(_, _, _, _)
MergeLoop(merged, current, rest, min_duration) ==
    IF rest = <<>> THEN Append(merged, current)
    ELSE IF /\ current.duration < min_duration
            /\ Head(rest).speaker_label = current.speaker_label
         THEN MergeLoop(merged,
                        [current EXCEPT !.end = Head(rest).end,
                                        !.duration = Head(rest).end - current.start],
                        Tail(rest), min_duration)
         ELSE MergeLoop(Append(merged, current), Head(rest), Tail(rest),
                        min_duration)

\* merge_short_segments, lines 302-325
merge_short_segments(segments, min_duration) ==
    IF segments = <<>> THEN <<>>
    ELSE MergeLoop(<<>>, Head(segments), Tail(segments), min_duration)

InitMerge ==
    /\ Fresh(DefaultConfig)
    /\ \E segments \in SegmentLists :
          probe = [fn |-> "merge", segments |-> segments, result |-> << >>]

Merge ==
    /\ probe.fn = "merge"
    /\ probe.result = << >>
    /\ probe' = [probe EXCEPT !.result =
                   << merge_short_segments(probe.segments, MinDuration) >>]
    /\ UNCHANGED pipelineVars

SpecMerge == InitMerge /\ [][Merge]_vars

\* the input has a short segment next to a segment of the same speaker
ShortNextToSame(segments) ==
    \E k \in 1..Len(segments) :
        /\ segments[k].duration < MinDuration
        /\ \E j \in {k - 1, k + 1} \cap (1..Len(segments)) :
              segments[j].speaker_label = segments[k].speaker_label

\* C34: merge_short_segments never returns more segments than it was given,
\* returns fewer when a short segment stands next to a segment of the same
\* speaker, and every segment it returns has duration = end - start.
C34_ShortSegmentsMerged ==
    (probe.fn = "merge" /\ probe.result # << >>) =>
        LET out == probe.result[1] IN
        /\ Len(out) <= Len(probe.segments)
        /\ ShortNextToSame(probe.segments) => Len(out) < Len(probe.segments)
        /\ \A k \in 1..Len(out) : out[k].duration = out[k].end - out[k].start

\* the pushed audio of segment seg of worker w's chunk
PushOf(w, seg) ==
    [chunk |-> seg.chunk, start |-> seg.start,
     audio |-> ToInt16(SegmentAudio(worker[w].chunk, seg))]

\* segment seg of worker w's chunk went to the streaming engine
Streamed(w, seg) ==
    \E k \in 1..Len(worker[w].pushed) : worker[w].pushed[k] = PushOf(w, seg)

\* segment seg went to the transcription buffer
Buffered(seg) == SpanId(seg) \in DOMAIN flushed

\* C35: once the target segments of a chunk have been routed, each of them
\* has gone to exactly one sink: the streaming engine or the transcription
\* buffer, also when the streaming session stops while the chunk is processed.
C35_ExactlyOneSink ==
    \A w \in Workers :
        worker[w].pc = "others" =>
            \A k \in 1..Len(worker[w].identified) :
                LET seg == worker[w].identified[k] IN
                seg.is_target => (Streamed(w, seg) /= Buffered(seg))

\* C36: once stop_monitoring has returned its summary, no event is appended
\* to the session's session_transcripts (and so no transcript callback is
\* invoked), neither by the worker nor by an engine callback.
C36_SummaryIsFinal ==
    [][(mpc = "stop_return" /\ ~ m_raising) =>
           session_transcripts' = session_transcripts]_vars

\* --------------------------------------------- the flush policy over sessions
\* Sessions started one after the other, whose streaming session the engine
\* may end, so that target audio is buffered and stop_monitoring has a buffer
\* to flush.
NextPolicy ==
    \/ Device(MaxCaptured)
    \/ \E w \in Workers : WindowStep(w) \/ Analyze(w) \/ ChunkStep(w)
    \/ EngineSessionStopped
    \/ \E arg \in ThresholdArgs :
          StartLoadProfile(arg) /\ starts' <= MaxRestarts
    \/ StartStreaming("ok")
    \/ StartAudio("ok")
    \/ StartThread(TRUE)
    \/ StopBegin
    \/ StopStreaming
    \/ StopNoFlush
    \/ \E text \in BOOLEAN : StopFlush(text)
    \/ StopFlushClear
    \/ StopAudio
    \/ StopJoin
    \/ StopCount
    \/ StopSummary
    \/ Return

SpecPolicy == Init /\ [][NextPolicy]_vars

\* C37: when a session starts, buffer_duration_target is the 15 seconds of
\* construction, whatever flush an earlier stop_monitoring forced.
C37_PolicyRestoredAtStart ==
    mpc \in {"start_streaming", "start_audio", "start_thread"} =>
        buffer_duration_target = BufferDurationTarget

\* C38: an active streaming session has its push stream and its recognizer,
\* and once stop_monitoring is past its stop of the streaming service the
\* session is inactive and stream and recognizer are None, also when the
\* engine had reported session_stopped before.
C38_StreamingSessionReleased ==
    /\ is_streaming => (stream # "None" /\ recognizer # "None")
    /\ mpc = "stop_flush" =>
          /\ ~ is_streaming
          /\ stream = "None"
          /\ recognizer = "None"

\* C39: the transcription buffer and its metadata list have the same length,
\* and outside an absorb in progress buffer_start_time is None exactly when
\* the buffer is empty.
C39_BufferFieldsAgree ==
    /\ Len(transcription_buffer) = Len(buffer_segments)
    /\ (\A w \in Workers : worker[w].pc # "absorb") =>
          ((buffer_start_time = <<>>) <=> (transcription_buffer = <<>>))

====
